---------------------------- MODULE Spec2Model ----------------------------
(***************************************************************************)
(* Multi-armed bandit simulators and drivers of                            *)
(* 02_Multi-Armed_Bandits/02_Multi_Armed_Bandits.ipynb.                     *)
(*                                                                         *)
(* Numbers.  Probabilities, epsilon and the uniform draws of               *)
(* np.random.rand() are multiples of 1/Grid: a probability or epsilon e    *)
(* stands for e/Grid, a draw u in 0..Grid-1 stands for u/Grid in [0,1).    *)
(* The estimates Q are exact rationals <<num, den>> in lowest terms (the   *)
(* code uses float64; rounding is not modelled).                           *)
(***************************************************************************)
EXTENDS Integers, Sequences, FiniteSets

\* ------------------------------------------------------------- bounds
MaxK == 2
MaxSteps == 2
Grid == 2

\* context_dim=2 is the default of the contextual simulators
ContextDim == 2

\* ---------------------------------------------------------- rationals
Abs(x) == IF x < 0 THEN -x ELSE x

RECURSIVE Gcd(_, _)
Gcd(a, b) == IF b = 0 THEN a ELSE Gcd(b, a % b)

\* n/d in lowest terms, d > 0
Rat(n, d) ==
    LET g == Gcd(Abs(n), Abs(d))
        s == IF d < 0 THEN -1 ELSE 1
    IN  <<(s * n) \div g, (s * d) \div g>>

RatZero == <<0, 1>>
RatLess(x, y) == x[1] * y[2] < y[1] * x[2]
RatLeq(x, y) == x[1] * y[2] <= y[1] * x[2]

\* ------------------------------------------------------------- numpy
Arms(n) == 0 .. (n - 1)

\* np.zeros(k), np.ones(k)
Zeros(n) == [a \in Arms(n) |-> 0]
RatZeros(n) == [a \in Arms(n) |-> RatZero]
Ones(n) == [a \in Arms(n) |-> 1]

\* x[i] on an array of length n: indices -n..-1 count from the end, anything
\* outside -n..n-1 raises IndexError
InBounds(i, n) == (-n <= i) /\ (i < n)
Wrap(i, n) == IF i < 0 THEN i + n ELSE i

\* np.argmax over Arms(n), n >= 1: the first index holding the maximum
ArgmaxRat(f, n) ==
    CHOOSE i \in Arms(n) :
        /\ \A j \in Arms(n) : RatLeq(f[j], f[i])
        /\ \A j \in Arms(n) : j < i => RatLess(f[j], f[i])

ArgmaxInt_OneBased(f, n) ==
    1 + (CHOOSE i \in Arms(n) :
            /\ \A j \in Arms(n) : f[j] <= f[i]
            /\ \A j \in Arms(n) : j < i => f[j] < f[i])
ArgmaxInt(f, n) ==
    CHOOSE i \in Arms(n) :
        /\ \A j \in Arms(n) : f[j] <= f[i]
        /\ \A j \in Arms(n) : j < i => f[j] < f[i]

\* np.random.randint(n): the values it may return
RandomArm_Inclusive(n) == 0 .. n
RandomArm(n) == Arms(n)

RECURSIVE Dot(_, _, _)
Dot(w, c, d) == IF d = 0 THEN 0 ELSE w[d] * c[d] + Dot(w, c, d - 1)

RECURSIVE Pow(_, _)
Pow(b, e) == IF e = 0 THEN 1 ELSE b * Pow(b, e - 1)

\* u/Grid < 1/(1 + exp(-z)), i.e. u < (Grid - u) * exp(z), with exp(1) taken as
\* 2718/1000
DrawBelowSigmoid(u, z) ==
    IF z >= 0
    THEN u * Pow(1000, z) < (Grid - u) * Pow(2718, z)
    ELSE u * Pow(2718, -z) < (Grid - u) * Pow(1000, -z)

\* np.random.rand() < prob
DrawBelow(u, prob) == u < prob

Draws == 0 .. (Grid - 1)

\* ------------------------------------------------------------- state
VARIABLES
    driver,           \* the function running; "harness" when step is called directly
    sim,              \* the simulator class
    k,                \* number of arms: len(p), item_weights.shape[0]
    p,                \* Bernoulli simulators: success probability of each arm
    weights,          \* contextual simulators: one weight row per arm
    horizon,          \* num_steps / num_users / num_queries
    epsilon,          \* exploration rate
    current_step,     \* the simulator's step counter
    env_context,      \* RecommenderSystemGymEnv.context
    Q, N,             \* epsilon-greedy estimates and counts
    alpha, beta,      \* Thompson-sampling pseudo-counts
    rewards_history,  \* the rewards appended so far
    actions_history,  \* the arm of each appended reward (not kept by the code)
    pc,               \* position in the driver
    coin,             \* the draw compared with epsilon in the current round
    explored,         \* whether the round took the random-arm branch
    action,           \* the arm selected in the current round
    reward, done,     \* what the last call of step returned
    context,          \* the driver's context / obs
    error,            \* the exception raised, "none" if none
    calls,            \* calls of step since construction or the last reset
    tape,             \* replay of a fixed random stream: the draws revealed so far
    pos,              \* draws of the stream the running driver has consumed
    kinds,            \* what each consumed draw was used for
    first             \* what the first of two runs on the same stream returned

vars == <<driver, sim, k, p, weights, horizon, epsilon, current_step, env_context,
          Q, N, alpha, beta, rewards_history, actions_history, pc, coin, explored, action,
          reward, done, context, error, calls, tape, pos, kinds, first>>

params == <<driver, sim, k, p, weights, horizon, epsilon>>
policy == <<Q, N, alpha, beta>>
history == <<rewards_history, actions_history>>
flip == <<coin, explored>>
replay == <<tape, pos, kinds, first>>

EpsilonGreedyDrivers ==
    {"epsilon_greedy", "epsilon_greedy_gym", "run_epsilon_greedy_recommender",
     "run_epsilon_greedy_recommender_gym"}
Drivers == EpsilonGreedyDrivers \cup {"run_thompson_search"}

SimOf(d) ==
    CASE d = "epsilon_greedy" -> "BernoulliBandit"
      [] d = "epsilon_greedy_gym" -> "BernoulliBanditEnv"
      [] d = "run_epsilon_greedy_recommender" -> "RecommenderSystemBandit"
      [] d = "run_epsilon_greedy_recommender_gym" -> "RecommenderSystemGymEnv"
      [] d = "run_thompson_search" -> "SearchBandit"

BernoulliSims == {"BernoulliBandit", "BernoulliBanditEnv"}
ContextualSims == {"RecommenderSystemBandit", "RecommenderSystemGymEnv", "SearchBandit"}
CountingSims == {"BernoulliBanditEnv"} \cup ContextualSims
Sims == BernoulliSims \cup ContextualSims

\* the first statement after the def line of each driver
EntryOf(d) ==
    CASE d = "epsilon_greedy" -> "for"
      [] d = "epsilon_greedy_gym" -> "reset"
      [] d = "run_epsilon_greedy_recommender" -> "context"
      [] d = "run_epsilon_greedy_recommender_gym" -> "reset"
      [] d = "run_thompson_search" -> "context"

NoContext == <<>>
Contexts == [1 .. ContextDim -> {-1, 1}]
WeightRows ==
    {[j \in 1 .. ContextDim |-> 1], [j \in 1 .. ContextDim |-> IF j = 1 THEN -1 ELSE 1]}

ValidProbs == 0 .. Grid
AnyProbs == (-1) .. (Grid + 1)
ValidK == 1 .. MaxK
AnyK == 0 .. MaxK
Horizons == 0 .. MaxSteps

\* nothing returned yet
NoResult == [returned |-> FALSE, rewards |-> <<>>, actions |-> <<>>, Q |-> <<>>,
             N |-> <<>>, kinds |-> <<>>]

\* no draw of the stream revealed or consumed
NoReplay ==
    /\ tape = <<>>
    /\ pos = 0
    /\ kinds = <<>>
    /\ first = NoResult

\* the simulator's __init__
Construct(s, ks, probs) ==
    /\ sim = s
    /\ k \in ks
    /\ IF s \in BernoulliSims
       THEN p \in [Arms(k) -> probs] /\ weights = <<>>
       ELSE p = <<>> /\ weights \in [Arms(k) -> WeightRows]
    /\ horizon \in Horizons
    /\ current_step = 0
    /\ env_context = NoContext
    /\ calls = 0

\* a driver called on a freshly constructed simulator, up to its first statement
InitDriver(ds, ks, probs, epss) ==
    /\ driver \in ds
    /\ Construct(SimOf(driver), ks, probs)
    /\ IF driver \in EpsilonGreedyDrivers
       THEN epsilon \in epss /\ Q = RatZeros(k) /\ N = Zeros(k) /\ alpha = <<>> /\ beta = <<>>
       ELSE epsilon = 0 /\ Q = <<>> /\ N = <<>> /\ alpha = Ones(k) /\ beta = Ones(k)
    /\ rewards_history = <<>>
    /\ actions_history = <<>>
    /\ pc = EntryOf(driver)
    /\ coin = 0
    /\ explored = FALSE
    /\ action = 0
    /\ reward = 0
    /\ done = FALSE
    /\ context = NoContext
    /\ error = "none"
    /\ NoReplay

Init == InitDriver(Drivers, ValidK, ValidProbs, 0 .. Grid)

\* ------------------------------------------------------------ policy
\* np.random.rand() < epsilon
Explore_Leq(u, eps) == u <= eps
Explore(u, eps) == u < eps

\* N[action] += 1; Q[action] += (reward - Q[action]) / N[action]
\* <<Q[action], N[action]>> after the two statements
IncrementalUpdate_WrongStep(q, n, r) ==
    LET n1 == n + 1
        n2 == n + 2
    IN  <<Rat(q[1] * n2 + r * q[2] - q[1], q[2] * n2), n1>>
IncrementalUpdate_SetCount(q, n, r) ==
    LET n1 == n + 1
    IN  <<Rat(q[1] * n1 + r * q[2] - q[1], q[2] * n1), 1>>
IncrementalUpdate(q, n, r) ==
    LET n1 == n + 1
    IN  <<Rat(q[1] * n1 + r * q[2] - q[1], q[2] * n1), n1>>

\* if reward == 1: alpha[action] += 1 / else: beta[action] += 1
\* <<alpha[action], beta[action]>> after the statement
ThompsonUpdate_Both(a, b, r) == IF r = 1 THEN <<a + 1, b + 1>> ELSE <<a, b + 1>>
ThompsonUpdate_Swapped(a, b, r) == IF r = 1 THEN <<a, b + 1>> ELSE <<a + 1, b>>
ThompsonUpdate(a, b, r) == IF r = 1 THEN <<a + 1, b>> ELSE <<a, b + 1>>

\* ---------------------------------------------------------- simulators
\* done = (self.current_step >= self.num_steps)
ReachedHorizon_Past(cs, hz) == cs > hz
ReachedHorizon(cs, hz) == cs >= hz

Bernoulli(u, prob) == IF DrawBelow(u, prob) THEN 1 ELSE 0
Logistic(u, w, c) == IF DrawBelowSigmoid(u, Dot(w, c, ContextDim)) THEN 1 ELSE 0

\* a call of step that raised e: nothing is returned, the counter is as it was
Raised(e) ==
    [error |-> e, reward |-> reward, current_step |-> current_step, done |-> done]
Returned(r, cs, d) ==
    [error |-> "none", reward |-> r, current_step |-> cs, done |-> d]

\* BernoulliBandit.step(action): no counter, no done
BernoulliBandit_step(a, u) ==
    IF InBounds(a, k)
    THEN Returned(Bernoulli(u, p[Wrap(a, k)]), current_step, done)
    ELSE Raised("IndexError")

\* BernoulliBanditEnv.step(action)
BernoulliBanditEnv_step_CountFirst(a, u) ==
    IF InBounds(a, k)
    THEN Returned(Bernoulli(u, p[Wrap(a, k)]), current_step + 1,
                  ReachedHorizon(current_step + 1, horizon))
    ELSE [Raised("IndexError") EXCEPT !.current_step = current_step + 1]
BernoulliBanditEnv_step(a, u) ==
    IF InBounds(a, k)
    THEN Returned(Bernoulli(u, p[Wrap(a, k)]), current_step + 1,
                  ReachedHorizon(current_step + 1, horizon))
    ELSE Raised("IndexError")

\* RecommenderSystemBandit.step(action, user_context)
RecommenderSystemBandit_step(a, c, u) ==
    IF InBounds(a, k)
    THEN Returned(Logistic(u, weights[Wrap(a, k)], c), current_step + 1,
                  ReachedHorizon(current_step + 1, horizon))
    ELSE Raised("IndexError")

\* RecommenderSystemGymEnv.step(action): self.context exists only after reset
RecommenderSystemGymEnv_step(a, u) ==
    IF ~InBounds(a, k) THEN Raised("IndexError")
    ELSE IF env_context = NoContext THEN Raised("AttributeError")
    ELSE Returned(Logistic(u, weights[Wrap(a, k)], env_context), current_step + 1,
                  ReachedHorizon(current_step + 1, horizon))

\* SearchBandit.step(action, query_context)
SearchBandit_step(a, c, u) ==
    IF InBounds(a, k)
    THEN Returned(Logistic(u, weights[Wrap(a, k)], c), current_step + 1,
                  ReachedHorizon(current_step + 1, horizon))
    ELSE Raised("IndexError")

\* ------------------------------------------------ shared driver steps
\* the caller's side of  reward, done = env.step(...)
Receive(res, next) ==
    /\ error' = res.error
    /\ reward' = res.reward
    /\ done' = res.done
    /\ current_step' = res.current_step
    /\ calls' = IF res.error = "none" THEN calls + 1 ELSE calls
    /\ pc' = IF res.error = "none" THEN next ELSE "raised"

\* if np.random.rand() < epsilon: action = np.random.randint(k)
\* else: action = np.argmax(Q)
\* (randint(0) and argmax of an empty array raise ValueError)
EpsilonGreedySelect(next) ==
    \E u \in Draws :
        /\ coin' = u
        /\ explored' = Explore(u, epsilon)
        /\ IF k = 0
           THEN action' = action /\ error' = "ValueError" /\ pc' = "raised"
           ELSE /\ IF explored'
                   THEN action' \in RandomArm(k)
                   ELSE action' = ArgmaxRat(Q, k)
                /\ error' = error
                /\ pc' = next

\* N[action] += 1; Q[action] += (reward - Q[action]) / N[action]
EpsilonGreedyUpdate_WholeArray ==
    LET qn == IncrementalUpdate(Q[action], N[action], reward)
    IN  /\ Q' = [Q EXCEPT ![action] = qn[1]]
        /\ N' = [b \in Arms(k) |-> N[b] + 1]
        /\ UNCHANGED <<alpha, beta>>
EpsilonGreedyUpdate ==
    LET qn == IncrementalUpdate(Q[action], N[action], reward)
    IN  /\ Q' = [Q EXCEPT ![action] = qn[1]]
        /\ N' = [N EXCEPT ![action] = qn[2]]
        /\ UNCHANGED <<alpha, beta>>

\* rewards_history.append(reward)
AppendReward ==
    /\ rewards_history' = Append(rewards_history, reward)
    /\ actions_history' = Append(actions_history, action)

\* ------------------------------------------------------ epsilon_greedy
\* for _ in range(num_steps):
EG_for ==
    /\ driver = "epsilon_greedy" /\ pc = "for"
    /\ pc' = IF Len(rewards_history) < horizon THEN "select" ELSE "return"
    /\ UNCHANGED <<params, policy, history, current_step, env_context, flip, action,
                   reward, done, context, error, calls>>

EG_select ==
    /\ driver = "epsilon_greedy" /\ pc = "select"
    /\ EpsilonGreedySelect("step")
    /\ UNCHANGED <<params, policy, history, current_step, env_context, reward, done,
                   context, calls>>

\* reward = bandit.step(action)
EG_step ==
    /\ driver = "epsilon_greedy" /\ pc = "step"
    /\ \E u \in Draws : Receive(BernoulliBandit_step(action, u), "update")
    /\ UNCHANGED <<params, policy, history, env_context, flip, action, context>>

EG_update ==
    /\ driver = "epsilon_greedy" /\ pc = "update"
    /\ EpsilonGreedyUpdate
    /\ pc' = "append"
    /\ UNCHANGED <<params, history, current_step, env_context, flip, action, reward,
                   done, context, error, calls>>

EG_append ==
    /\ driver = "epsilon_greedy" /\ pc = "append"
    /\ AppendReward
    /\ pc' = "for"
    /\ UNCHANGED <<params, policy, current_step, env_context, flip, action, reward,
                   done, context, error, calls>>

\* -------------------------------------------------- epsilon_greedy_gym
\* obs, info = env.reset(); done = False
EGG_reset ==
    /\ driver = "epsilon_greedy_gym" /\ pc = "reset"
    /\ current_step' = 0
    /\ calls' = 0
    /\ done' = FALSE
    /\ pc' = "while"
    /\ UNCHANGED <<params, policy, history, env_context, flip, action, reward,
                   context, error>>

\* while not done:
EGG_while ==
    /\ driver = "epsilon_greedy_gym" /\ pc = "while"
    /\ pc' = IF ~done THEN "select" ELSE "return"
    /\ UNCHANGED <<params, policy, history, current_step, env_context, flip, action,
                   reward, done, context, error, calls>>

EGG_select ==
    /\ driver = "epsilon_greedy_gym" /\ pc = "select"
    /\ EpsilonGreedySelect("step")
    /\ UNCHANGED <<params, policy, history, current_step, env_context, reward, done,
                   context, calls>>

\* obs, reward, done, truncated, info = env.step(action)
EGG_step ==
    /\ driver = "epsilon_greedy_gym" /\ pc = "step"
    /\ \E u \in Draws : Receive(BernoulliBanditEnv_step(action, u), "update")
    /\ UNCHANGED <<params, policy, history, env_context, flip, action, context>>

EGG_update ==
    /\ driver = "epsilon_greedy_gym" /\ pc = "update"
    /\ EpsilonGreedyUpdate
    /\ pc' = "append"
    /\ UNCHANGED <<params, history, current_step, env_context, flip, action, reward,
                   done, context, error, calls>>

EGG_append ==
    /\ driver = "epsilon_greedy_gym" /\ pc = "append"
    /\ AppendReward
    /\ pc' = "break"
    /\ UNCHANGED <<params, policy, current_step, env_context, flip, action, reward,
                   done, context, error, calls>>

\* if done or truncated: break   (truncated is always False)
EGG_break ==
    /\ driver = "epsilon_greedy_gym" /\ pc = "break"
    /\ pc' = IF done THEN "return" ELSE "while"
    /\ UNCHANGED <<params, policy, history, current_step, env_context, flip, action,
                   reward, done, context, error, calls>>

\* -------------------------------------- run_epsilon_greedy_recommender
\* while True: context = env.get_context()
EGR_context ==
    /\ driver = "run_epsilon_greedy_recommender" /\ pc = "context"
    /\ context' \in Contexts
    /\ pc' = "select"
    /\ UNCHANGED <<params, policy, history, current_step, env_context, flip, action,
                   reward, done, error, calls>>

EGR_select ==
    /\ driver = "run_epsilon_greedy_recommender" /\ pc = "select"
    /\ EpsilonGreedySelect("step")
    /\ UNCHANGED <<params, policy, history, current_step, env_context, reward, done,
                   context, calls>>

\* reward, done = env.step(action, context)
EGR_step ==
    /\ driver = "run_epsilon_greedy_recommender" /\ pc = "step"
    /\ \E u \in Draws : Receive(RecommenderSystemBandit_step(action, context, u), "update")
    /\ UNCHANGED <<params, policy, history, env_context, flip, action, context>>

EGR_update ==
    /\ driver = "run_epsilon_greedy_recommender" /\ pc = "update"
    /\ EpsilonGreedyUpdate
    /\ pc' = "append"
    /\ UNCHANGED <<params, history, current_step, env_context, flip, action, reward,
                   done, context, error, calls>>

EGR_append ==
    /\ driver = "run_epsilon_greedy_recommender" /\ pc = "append"
    /\ AppendReward
    /\ pc' = "break"
    /\ UNCHANGED <<params, policy, current_step, env_context, flip, action, reward,
                   done, context, error, calls>>

\* if done: break
EGR_break_KeepContext ==
    /\ driver = "run_epsilon_greedy_recommender" /\ pc = "break"
    /\ pc' = IF done THEN "return" ELSE "select"
    /\ UNCHANGED <<params, policy, history, current_step, env_context, flip, action,
                   reward, done, context, error, calls>>
EGR_break ==
    /\ driver = "run_epsilon_greedy_recommender" /\ pc = "break"
    /\ pc' = IF done THEN "return" ELSE "context"
    /\ UNCHANGED <<params, policy, history, current_step, env_context, flip, action,
                   reward, done, context, error, calls>>

\* ---------------------------------- run_epsilon_greedy_recommender_gym
\* obs, info = env.reset(); done = False
EGRG_reset ==
    /\ driver = "run_epsilon_greedy_recommender_gym" /\ pc = "reset"
    /\ current_step' = 0
    /\ calls' = 0
    /\ env_context' \in Contexts
    /\ context' = env_context'
    /\ done' = FALSE
    /\ pc' = "while"
    /\ UNCHANGED <<params, policy, history, flip, action, reward, error>>

EGRG_while ==
    /\ driver = "run_epsilon_greedy_recommender_gym" /\ pc = "while"
    /\ pc' = IF ~done THEN "select" ELSE "return"
    /\ UNCHANGED <<params, policy, history, current_step, env_context, flip, action,
                   reward, done, context, error, calls>>

EGRG_select ==
    /\ driver = "run_epsilon_greedy_recommender_gym" /\ pc = "select"
    /\ EpsilonGreedySelect("step")
    /\ UNCHANGED <<params, policy, history, current_step, env_context, reward, done,
                   context, calls>>

\* new_obs, reward, done, truncated, info = env.step(action)
\* step ends by sampling the next user's context
EGRG_step ==
    /\ driver = "run_epsilon_greedy_recommender_gym" /\ pc = "step"
    /\ \E u \in Draws :
        LET res == RecommenderSystemGymEnv_step(action, u)
        IN  /\ Receive(res, "update")
            /\ IF res.error = "none"
               THEN env_context' \in Contexts
               ELSE env_context' = env_context
    /\ UNCHANGED <<params, policy, history, flip, action, context>>

EGRG_update ==
    /\ driver = "run_epsilon_greedy_recommender_gym" /\ pc = "update"
    /\ EpsilonGreedyUpdate
    /\ pc' = "append"
    /\ UNCHANGED <<params, history, current_step, env_context, flip, action, reward,
                   done, context, error, calls>>

EGRG_append ==
    /\ driver = "run_epsilon_greedy_recommender_gym" /\ pc = "append"
    /\ AppendReward
    /\ pc' = "break"
    /\ UNCHANGED <<params, policy, current_step, env_context, flip, action, reward,
                   done, context, error, calls>>

\* obs = new_obs; if done or truncated: break
EGRG_break ==
    /\ driver = "run_epsilon_greedy_recommender_gym" /\ pc = "break"
    /\ context' = env_context
    /\ pc' = IF done THEN "return" ELSE "while"
    /\ UNCHANGED <<params, policy, history, current_step, env_context, flip, action,
                   reward, done, error, calls>>

\* ------------------------------------------------- run_thompson_search
\* np.random.beta(alpha, beta): one sample per arm, in (0,1); a sample s stands
\* for s/(Grid+1)
BetaSamples(n) == [Arms(n) -> 1 .. Grid]

\* while True: query_context = env.get_context()
TS_context ==
    /\ driver = "run_thompson_search" /\ pc = "context"
    /\ context' \in Contexts
    /\ pc' = "select"
    /\ UNCHANGED <<params, policy, history, current_step, env_context, flip, action,
                   reward, done, error, calls>>

\* sampled_q = np.random.beta(alpha, beta); action = np.argmax(sampled_q)
\* (argmax of an empty array raises ValueError)
TS_select ==
    /\ driver = "run_thompson_search" /\ pc = "select"
    /\ IF k = 0
       THEN action' = action /\ error' = "ValueError" /\ pc' = "raised"
       ELSE /\ \E sampled_q \in BetaSamples(k) : action' = ArgmaxInt(sampled_q, k)
            /\ error' = error
            /\ pc' = "step"
    /\ UNCHANGED <<params, policy, history, current_step, env_context, flip, reward,
                   done, context, calls>>

\* reward, done = env.step(action, query_context)
TS_step ==
    /\ driver = "run_thompson_search" /\ pc = "step" /\ sim = "SearchBandit"
    /\ \E u \in Draws : Receive(SearchBandit_step(action, context, u), "update")
    /\ UNCHANGED <<params, policy, history, env_context, flip, action, context>>

\* if reward == 1: alpha[action] += 1 / else: beta[action] += 1
TS_update ==
    /\ driver = "run_thompson_search" /\ pc = "update"
    /\ LET ab == ThompsonUpdate(alpha[action], beta[action], reward)
       IN  /\ alpha' = [alpha EXCEPT ![action] = ab[1]]
           /\ beta' = [beta EXCEPT ![action] = ab[2]]
    /\ pc' = "append"
    /\ UNCHANGED <<params, Q, N, history, current_step, env_context, flip, action,
                   reward, done, context, error, calls>>

TS_append ==
    /\ driver = "run_thompson_search" /\ pc = "append"
    /\ AppendReward
    /\ pc' = "break"
    /\ UNCHANGED <<params, policy, current_step, env_context, flip, action, reward,
                   done, context, error, calls>>

\* if done: break
TS_break ==
    /\ driver = "run_thompson_search" /\ pc = "break"
    /\ pc' = IF done THEN "return" ELSE "context"
    /\ UNCHANGED <<params, policy, history, current_step, env_context, flip, action,
                   reward, done, context, error, calls>>

\* ------------------------------------------------------ specification
Next ==
    \/ EG_for /\ UNCHANGED replay
    \/ EG_select /\ UNCHANGED replay
    \/ EG_step /\ UNCHANGED replay
    \/ EG_update /\ UNCHANGED replay
    \/ EG_append /\ UNCHANGED replay
    \/ EGG_reset /\ UNCHANGED replay
    \/ EGG_while /\ UNCHANGED replay
    \/ EGG_select /\ UNCHANGED replay
    \/ EGG_step /\ UNCHANGED replay
    \/ EGG_update /\ UNCHANGED replay
    \/ EGG_append /\ UNCHANGED replay
    \/ EGG_break /\ UNCHANGED replay
    \/ EGR_context /\ UNCHANGED replay
    \/ EGR_select /\ UNCHANGED replay
    \/ EGR_step /\ UNCHANGED replay
    \/ EGR_update /\ UNCHANGED replay
    \/ EGR_append /\ UNCHANGED replay
    \/ EGR_break /\ UNCHANGED replay
    \/ EGRG_reset /\ UNCHANGED replay
    \/ EGRG_while /\ UNCHANGED replay
    \/ EGRG_select /\ UNCHANGED replay
    \/ EGRG_step /\ UNCHANGED replay
    \/ EGRG_update /\ UNCHANGED replay
    \/ EGRG_append /\ UNCHANGED replay
    \/ EGRG_break /\ UNCHANGED replay
    \/ TS_context /\ UNCHANGED replay
    \/ TS_select /\ UNCHANGED replay
    \/ TS_step /\ UNCHANGED replay
    \/ TS_update /\ UNCHANGED replay
    \/ TS_append /\ UNCHANGED replay
    \/ TS_break /\ UNCHANGED replay

Spec == Init /\ [][Next]_vars

\* ----------------------------------------------- unchecked arguments
\* no __init__ and no driver checks its arguments: any number of arms, any
\* probabilities and any epsilon are accepted
AnyEpsilons == (-1) .. (Grid + 1)

InitUnvalidated == InitDriver(Drivers, AnyK, AnyProbs, AnyEpsilons)

SpecUnvalidated == InitUnvalidated /\ [][Next]_vars

\* -------------------------- run_thompson_search on a caller-supplied env
\* run_thompson_search takes any object with k, get_context and step; the
\* rewards such an env may return
AnyRewards == {0, 1, 2}

InitAnyEnv ==
    /\ driver = "run_thompson_search"
    /\ sim = "AnyEnv"
    /\ k \in ValidK
    /\ p = <<>> /\ weights = <<>>
    /\ horizon \in Horizons
    /\ current_step = 0
    /\ env_context = NoContext
    /\ calls = 0
    /\ epsilon = 0 /\ Q = <<>> /\ N = <<>> /\ alpha = Ones(k) /\ beta = Ones(k)
    /\ rewards_history = <<>>
    /\ actions_history = <<>>
    /\ pc = "context"
    /\ coin = 0
    /\ explored = FALSE
    /\ action = 0
    /\ reward = 0
    /\ done = FALSE
    /\ context = NoContext
    /\ error = "none"
    /\ NoReplay

\* reward, done = env.step(action, query_context), env counting its calls as
\* SearchBandit does and returning a reward of its own
TS_step_AnyEnv ==
    /\ driver = "run_thompson_search" /\ pc = "step" /\ sim = "AnyEnv"
    /\ \E r \in AnyRewards :
        Receive(Returned(r, current_step + 1, ReachedHorizon(current_step + 1, horizon)),
                "update")
    /\ UNCHANGED <<params, policy, history, env_context, flip, action, context>>

NextAnyEnv ==
    \/ TS_context /\ UNCHANGED replay
    \/ TS_select /\ UNCHANGED replay
    \/ TS_step_AnyEnv /\ UNCHANGED replay
    \/ TS_update /\ UNCHANGED replay
    \/ TS_append /\ UNCHANGED replay
    \/ TS_break /\ UNCHANGED replay

SpecAnyEnv == InitAnyEnv /\ [][NextAnyEnv]_vars

\* ------------------------------------------- direct calls of step
\* arguments a caller may pass as the arm index
ArmArgs == (-(MaxK + 1)) .. (MaxK + 1)

\* a simulator constructed and not yet used
InitHarness ==
    /\ driver = "harness"
    /\ \E s \in Sims : Construct(s, ValidK, ValidProbs)
    /\ epsilon = 0
    /\ Q = <<>> /\ N = <<>> /\ alpha = <<>> /\ beta = <<>>
    /\ rewards_history = <<>>
    /\ actions_history = <<>>
    /\ pc = "harness"
    /\ coin = 0
    /\ explored = FALSE
    /\ action = 0
    /\ reward = 0
    /\ done = FALSE
    /\ context = NoContext
    /\ error = "none"
    /\ NoReplay

\* the context argument of step, for the simulators whose step takes one
ContextArgs ==
    IF sim \in {"RecommenderSystemBandit", "SearchBandit"} THEN Contexts ELSE {NoContext}

SimStep(a, c, u) ==
    CASE sim = "BernoulliBandit" -> BernoulliBandit_step(a, u)
      [] sim = "BernoulliBanditEnv" -> BernoulliBanditEnv_step(a, u)
      [] sim = "RecommenderSystemBandit" -> RecommenderSystemBandit_step(a, c, u)
      [] sim = "RecommenderSystemGymEnv" -> RecommenderSystemGymEnv_step(a, u)
      [] sim = "SearchBandit" -> SearchBandit_step(a, c, u)

\* env.step(a) or env.step(a, c) called directly, its exception caught by the
\* caller; calls counts the calls that returned
Harness_step ==
    /\ driver = "harness"
    /\ calls <= MaxSteps
    /\ \E a \in ArmArgs, c \in ContextArgs, u \in Draws :
        LET res == SimStep(a, c, u)
        IN  /\ action' = a
            /\ error' = res.error
            /\ reward' = res.reward
            /\ done' = res.done
            /\ current_step' = res.current_step
            /\ calls' = IF res.error = "none" THEN calls + 1 ELSE calls
            /\ IF sim = "RecommenderSystemGymEnv" /\ res.error = "none"
               THEN env_context' \in Contexts
               ELSE env_context' = env_context
    /\ UNCHANGED <<params, policy, history, pc, flip, context>>

\* env.reset() of the two Gymnasium environments
Harness_reset ==
    /\ driver = "harness"
    /\ sim \in {"BernoulliBanditEnv", "RecommenderSystemGymEnv"}
    /\ current_step' = 0
    /\ calls' = 0
    /\ IF sim = "RecommenderSystemGymEnv"
       THEN env_context' \in Contexts
       ELSE env_context' = env_context
    /\ UNCHANGED <<params, policy, history, pc, flip, action, reward, done, context,
                   error>>

NextStep ==
    \/ Harness_step /\ UNCHANGED replay
    \/ Harness_reset /\ UNCHANGED replay

SpecStep == InitHarness /\ [][NextStep]_vars

\* -------------------------------------------------- two runs on one random stream
\* One cell of the stream of numpy's global generator: what rand() returns
\* when it is the call that consumes the cell, and what randint(k) returns.
Cells == [u : Draws, arm : RandomArm(k)]

\* the stream with its first n cells revealed; cells already revealed stay
Reveal(n) ==
    IF n <= Len(tape)
    THEN {tape}
    ELSE {tape \o ext : ext \in [1 .. (n - Len(tape)) -> Cells]}

\* bandit = BernoulliBandit(p); epsilon_greedy(bandit, num_steps, epsilon)
InitPair == InitDriver({"epsilon_greedy"}, ValidK, ValidProbs, 0 .. Grid)

\* np.random.rand() < epsilon, then np.random.randint(k) when exploring,
\* both read from the stream
ReplaySelect ==
    LET need == IF explored' THEN 2 ELSE 1
    IN  /\ \E t \in Reveal(pos + need) :
            /\ t[pos + 1].u = coin'
            /\ explored' => t[pos + 2].arm = action'
            /\ tape' = t
        /\ pos' = pos + need
        /\ kinds' = kinds \o (IF explored' THEN <<"coin", "arm">> ELSE <<"coin">>)
        /\ first' = first

\* the np.random.rand() of step, read from the stream
ReplayReward(u) ==
    /\ \E t \in Reveal(pos + 1) : t[pos + 1].u = u /\ tape' = t
    /\ pos' = pos + 1
    /\ kinds' = Append(kinds, "reward")
    /\ first' = first

Pair_EG_for == EG_for /\ UNCHANGED replay

Pair_EG_select == EG_select /\ ReplaySelect

Pair_EG_step ==
    /\ driver = "epsilon_greedy" /\ pc = "step"
    /\ \E u \in Draws :
        /\ Receive(BernoulliBandit_step(action, u), "update")
        /\ ReplayReward(u)
    /\ UNCHANGED <<params, policy, history, env_context, flip, action, context>>

Pair_EG_update == EG_update /\ UNCHANGED replay

Pair_EG_append == EG_append /\ UNCHANGED replay

\* return np.array(rewards_history), Q  -- and then, with the generator back
\* at the start of the same stream,
\* env = BernoulliBanditEnv(p, num_steps); epsilon_greedy_gym(env, epsilon)
Pair_second ==
    /\ driver = "epsilon_greedy" /\ pc = "return" /\ ~first.returned
    /\ first' = [returned |-> TRUE, rewards |-> rewards_history,
                 actions |-> actions_history, Q |-> Q, N |-> N, kinds |-> kinds]
    /\ driver' = "epsilon_greedy_gym"
    /\ sim' = SimOf("epsilon_greedy_gym")
    /\ current_step' = 0
    /\ calls' = 0
    /\ Q' = RatZeros(k)
    /\ N' = Zeros(k)
    /\ rewards_history' = <<>>
    /\ actions_history' = <<>>
    /\ pc' = EntryOf("epsilon_greedy_gym")
    /\ coin' = 0
    /\ explored' = FALSE
    /\ action' = 0
    /\ reward' = 0
    /\ done' = FALSE
    /\ pos' = 0
    /\ kinds' = <<>>
    /\ UNCHANGED <<k, p, weights, horizon, epsilon, env_context, alpha, beta, context,
                   error, tape>>

Pair_EGG_reset == EGG_reset /\ UNCHANGED replay

Pair_EGG_while == EGG_while /\ UNCHANGED replay

Pair_EGG_select == EGG_select /\ ReplaySelect

Pair_EGG_step ==
    /\ driver = "epsilon_greedy_gym" /\ pc = "step"
    /\ \E u \in Draws :
        /\ Receive(BernoulliBanditEnv_step(action, u), "update")
        /\ ReplayReward(u)
    /\ UNCHANGED <<params, policy, history, env_context, flip, action, context>>

Pair_EGG_update == EGG_update /\ UNCHANGED replay

Pair_EGG_append == EGG_append /\ UNCHANGED replay

Pair_EGG_break == EGG_break /\ UNCHANGED replay

NextPair ==
    \/ Pair_EG_for \/ Pair_EG_select \/ Pair_EG_step \/ Pair_EG_update
    \/ Pair_EG_append
    \/ Pair_second
    \/ Pair_EGG_reset \/ Pair_EGG_while \/ Pair_EGG_select \/ Pair_EGG_step
    \/ Pair_EGG_update \/ Pair_EGG_append \/ Pair_EGG_break

SpecPair == InitPair /\ [][NextPair]_vars

\* -------------------------------------------------- derived quantities
RECURSIVE SumOver(_, _)
SumOver(f, n) == IF n = 0 THEN 0 ELSE f[n - 1] + SumOver(f, n - 1)

\* the rounds among the first n appended whose arm was a
RECURSIVE PullsOf(_, _)
PullsOf(a, n) ==
    IF n = 0 THEN 0
    ELSE (IF actions_history[n] = a THEN 1 ELSE 0) + PullsOf(a, n - 1)

\* the sum of their rewards
RECURSIVE RewardsOf(_, _)
RewardsOf(a, n) ==
    IF n = 0 THEN 0
    ELSE (IF actions_history[n] = a THEN rewards_history[n] ELSE 0) + RewardsOf(a, n - 1)

Rounds == Len(rewards_history)

\* between the policy update and the append, the round's pair is not yet recorded
Pending(a) == pc = "append" /\ action = a
Selected(a) == PullsOf(a, Rounds) + (IF Pending(a) THEN 1 ELSE 0)
Observed(a) == RewardsOf(a, Rounds) + (IF Pending(a) THEN reward ELSE 0)

\* no round is in progress
BetweenRounds == pc \in {"for", "reset", "while", "context", "break", "return"}

\* --------------------------------------------------------------- claims
\* C1: in every epsilon-greedy driver, whenever no round is in progress, the sum
\* over all arms of N equals the number of rounds executed (the calls of step that
\* returned) and the length of rewards_history.
C1_CountInvariant ==
    (driver \in EpsilonGreedyDrivers /\ BetweenRounds)
        => /\ SumOver(N, k) = Rounds
           /\ SumOver(N, k) = calls

C1_Witness ==
    /\ driver \in EpsilonGreedyDrivers
    /\ pc = "return"
    /\ Rounds >= 2
    /\ \E a \in Arms(k) : N[a] >= 2

\* C2: after every update of an epsilon-greedy loop, Q[a] * N[a] is the sum of the
\* rewards observed for arm a, N[a] is the number of times a was selected, and an
\* arm never selected still has Q[a] = 0.
C2_SampleAverage ==
    (driver \in EpsilonGreedyDrivers /\ pc # "update")
        => \A a \in Arms(k) :
            /\ N[a] = Selected(a)
            /\ Q[a][1] * N[a] = Observed(a) * Q[a][2]
            /\ N[a] = 0 => Q[a] = RatZero

C2_Witness ==
    /\ driver \in EpsilonGreedyDrivers
    /\ pc = "append"
    /\ \E a \in Arms(k) : N[a] = 2 /\ Q[a] = <<1, 2>>

\* C3: in run_thompson_search, for every arm i, alpha[i] + beta[i] is 2 plus the
\* number of rounds in which arm i was selected.
C3_PosteriorCount ==
    (driver = "run_thompson_search" /\ pc # "update")
        => \A i \in Arms(k) : alpha[i] + beta[i] = 2 + Selected(i)

C3_Witness ==
    /\ driver = "run_thompson_search"
    /\ pc = "return"
    /\ \E i \in Arms(k) : alpha[i] = 2 /\ beta[i] = 2

\* C4: for every simulator with a step counter, counting the calls of step that
\* returned since construction or the last reset, the counter equals the number of
\* calls (it grows by exactly 1 per call) and the n-th call returned done = FALSE
\* when n is below the horizon and done = TRUE when n has reached it.
C4_DoneAtHorizon ==
    (driver = "harness" /\ sim \in CountingSims)
        => /\ current_step = calls
           /\ calls >= 1 => (done <=> calls >= horizon)

C4_Witness ==
    /\ driver = "harness"
    /\ sim \in CountingSims
    /\ horizon = 2
    /\ calls = 2
    /\ done

\* C6: a call of step with an arm index outside [0, k) fails with an error.
C6_OutOfRangeFails ==
    (driver = "harness" /\ action \notin Arms(k)) => error # "none"

\* C7: a call of step with arm_index = k fails with an error and leaves the step
\* counter and the last done as they were.
C7_IndexKFails ==
    [][(Harness_step /\ action' = k)
        => /\ error' = "IndexError"
           /\ current_step' = current_step
           /\ calls' = calls
           /\ done' = done]_vars

C7_Witness ==
    /\ driver = "harness"
    /\ sim \in CountingSims
    /\ action = k
    /\ error = "IndexError"
    /\ current_step >= 1

\* C5: every driver run on a fresh simulator with horizon H >= 0 returns after
\* exactly H rounds: the returned rewards history has length H.
C5_ExactlyHorizonRounds ==
    pc = "return" => Rounds = horizon

\* a is the lowest-index arm among those with maximal Q
FirstMaximum(a) ==
    /\ \A j \in Arms(k) : RatLeq(Q[j], Q[a])
    /\ \A j \in Arms(k) : j < a => RatLess(Q[j], Q[a])

\* C8: in epsilon-greedy selection the random-arm branch is taken exactly when the
\* draw is below epsilon; a round that does not take it selects the lowest-index
\* arm among those with maximal Q at the moment of selection; with epsilon = 0 no
\* round takes it, with epsilon = 1 every round does.
C8_BranchByDraw ==
    (driver \in EpsilonGreedyDrivers /\ pc = "step")
        => /\ explored <=> (coin < epsilon)
           /\ ~explored => FirstMaximum(action)
           /\ epsilon = 0 => (~explored /\ FirstMaximum(action))
           /\ epsilon = Grid => explored

C8_Witness ==
    /\ driver \in EpsilonGreedyDrivers
    /\ pc = "step"
    /\ epsilon = Grid
    /\ explored
    /\ \E j \in Arms(k) : RatLess(Q[action], Q[j])

\* an argument outside its documented range
InvalidArguments ==
    \/ epsilon < 0 \/ epsilon > Grid
    \/ k < 1
    \/ \E a \in DOMAIN p : p[a] < 0 \/ p[a] > Grid

\* C9: a run started with epsilon outside [0,1], with k < 1 or with a success
\* probability outside [0,1] raises an error before any round is executed: step is
\* never called.
C9_InvalidFailsFast ==
    InvalidArguments => (calls = 0 /\ Rounds = 0)

\* C10: in the Thompson-sampling update a reward outside {0,1} makes the update
\* fail and leaves alpha and beta unchanged.
C10_NonBinaryRewardFails ==
    [][(TS_update /\ reward \notin {0, 1})
        => (error' # "none" /\ alpha' = alpha /\ beta' = beta)]_vars

\* every arm recorded so far, and the arm of the round in progress
ChosenArms ==
    {actions_history[i] : i \in 1 .. Len(actions_history)}
        \cup (IF pc \in {"step", "update", "append"} THEN {action} ELSE {})

\* C11: with k = 1 every round of every strategy (epsilon-greedy with any epsilon
\* in [0,1], Thompson sampling) selects arm 0, whatever the draws and rewards.
C11_SingleArm ==
    k = 1 => ChosenArms \subseteq {0}

C11_Witness ==
    /\ k = 1
    /\ driver \in EpsilonGreedyDrivers
    /\ pc = "step"
    /\ explored
    /\ Rounds >= 1

\* C12: in every driver run with k >= 1 every action chosen (random arm, argmax of
\* Q, argmax of the Beta samples) lies in [0, k), so no call of step and no index
\* into Q, N, alpha or beta raises.
C12_ArmsInRange ==
    /\ ChosenArms \subseteq Arms(k)
    /\ error = "none"
    /\ pc # "raised"

C12_Witness ==
    /\ driver = "run_thompson_search"
    /\ k >= 2
    /\ pc = "append"
    /\ action = k - 1
    /\ Rounds >= 1

\* the statement that precedes the selection in each driver's round
BeforeSelect ==
    CASE driver = "epsilon_greedy" -> "for"
      [] driver \in {"epsilon_greedy_gym", "run_epsilon_greedy_recommender_gym"} -> "while"
      [] OTHER -> "context"

\* the number of rounds the estimates account for
RoundsInEstimates ==
    IF driver \in EpsilonGreedyDrivers
    THEN SumOver(N, k)
    ELSE SumOver(alpha, k) + SumOver(beta, k) - 2 * k

\* the policy update of the round, made with reward r
UpdatedWith(r) ==
    IF driver \in EpsilonGreedyDrivers
    THEN /\ N'[action] = N[action] + 1
         /\ Q'[action][1] * Q[action][2] * N'[action]
                = (Q[action][1] * N[action] + r * Q[action][2]) * Q'[action][2]
    ELSE IF r = 1
         THEN alpha'[action] = alpha[action] + 1 /\ beta' = beta
         ELSE beta'[action] = beta[action] + 1 /\ alpha' = alpha

\* C13: within every round of every driver the context (contextual variants) is
\* there before the action is selected, the action is selected before step is
\* called with it, the policy update uses the reward that step returned, and the
\* record is appended after the update; all earlier rounds are updated and recorded
\* before the next action is selected.
C13_RoundOrder ==
    [][/\ (pc' = "select" /\ pc # "select") => pc = BeforeSelect
       /\ (pc' = "step" /\ pc # "step") => pc = "select"
       /\ (pc' = "update" /\ pc # "update") => pc = "step"
       /\ (pc' = "append" /\ pc # "append") => pc = "update"
       /\ (pc' = "select" /\ sim \in ContextualSims)
            => (IF sim = "RecommenderSystemGymEnv"
                THEN env_context' # NoContext /\ context' = env_context'
                ELSE pc = "context" /\ context' \in Contexts)
       /\ pc = "select"
            => (RoundsInEstimates = Rounds /\ calls = Rounds /\ policy' = policy)
       /\ action' # action => pc = "select"
       /\ calls' # calls
            => (pc = "step" /\ calls' = calls + 1 /\ action' = action
                /\ context' = context /\ policy' = policy /\ history' = history)
       /\ reward' # reward => pc = "step"
       /\ policy' # policy
            => (pc = "update" /\ calls = Rounds + 1 /\ reward' = reward
                /\ UpdatedWith(reward) /\ history' = history)
       /\ history' # history
            => (pc = "append" /\ RoundsInEstimates = Rounds + 1
                /\ rewards_history' = Append(rewards_history, reward)
                /\ actions_history' = Append(actions_history, action)
                /\ policy' = policy)]_vars

C13_Witness ==
    /\ driver = "run_epsilon_greedy_recommender"
    /\ pc = "append"
    /\ Rounds >= 1
    /\ context \in Contexts

\* C14: a round changes the estimates of the chosen arm only.  In the
\* epsilon-greedy loops Q[b] and N[b] are unchanged for every other arm b and
\* N[chosen] grows by exactly 1; in Thompson sampling exactly one of alpha[chosen],
\* beta[chosen] grows by exactly 1 and every other entry is unchanged; no statement
\* other than the update (selection, step, append, loop tests) changes Q, N, alpha
\* or beta.
C14_FrameOfUpdate ==
    [][/\ pc # "update" => policy' = policy
       /\ (pc = "update" /\ driver \in EpsilonGreedyDrivers)
            => /\ \A b \in Arms(k) \ {action} : Q'[b] = Q[b] /\ N'[b] = N[b]
               /\ N'[action] = N[action] + 1
               /\ alpha' = alpha /\ beta' = beta
       /\ (pc = "update" /\ driver = "run_thompson_search")
            => /\ \A b \in Arms(k) \ {action} : alpha'[b] = alpha[b] /\ beta'[b] = beta[b]
               /\ \/ alpha'[action] = alpha[action] + 1 /\ beta'[action] = beta[action]
                  \/ alpha'[action] = alpha[action] /\ beta'[action] = beta[action] + 1
               /\ Q' = Q /\ N' = N]_vars

C14_Witness ==
    /\ driver \in EpsilonGreedyDrivers
    /\ pc = "append"
    /\ k >= 2
    /\ N[action] = 2
    /\ \E b \in Arms(k) \ {action} : N[b] = 0 /\ Q[b] = RatZero

\* the rounds recorded with reward r
RoundsWithReward(r) ==
    Cardinality({i \in 1 .. Len(rewards_history) : rewards_history[i] = r})

\* C15: in run_thompson_search, whenever no round is in progress, the sum over
\* arms of (alpha[i] - 1) is the number of 1s in rewards_history (the cumulative
\* reward), the sum of (beta[i] - 1) is the number of 0s, and the two sums together
\* are the number of rounds executed.
C15_PosteriorTotals ==
    (driver = "run_thompson_search" /\ BetweenRounds)
        => /\ SumOver(alpha, k) - k = RoundsWithReward(1)
           /\ SumOver(beta, k) - k = RoundsWithReward(0)
           /\ (SumOver(alpha, k) - k) + (SumOver(beta, k) - k) = Rounds
           /\ Rounds = calls

C15_Witness ==
    /\ driver = "run_thompson_search"
    /\ pc = "return"
    /\ RoundsWithReward(1) >= 1
    /\ RoundsWithReward(0) >= 1
\* what the run in progress has produced and consumed
ThisRun == [returned |-> TRUE, rewards |-> rewards_history, actions |-> actions_history,
            Q |-> Q, N |-> N, kinds |-> kinds]

\* both runs on the same stream have returned
BothReturned == first.returned /\ driver = "epsilon_greedy_gym" /\ pc = "return"

\* C16: epsilon_greedy on BernoulliBandit(p) and epsilon_greedy_gym on
\* BernoulliBanditEnv(p, num_steps), given the same p, num_steps >= 0, epsilon
\* and the same stream of random draws, consume the draws in the same order
\* (coin flip, optional random arm, reward draw) and return the same sequence
\* of actions and rewards and the same final Q and N.
C16_SameRun == BothReturned => first = ThisRun

\* the two runs agree whenever at least one step was asked for
C16_SameRunFromOne == (BothReturned /\ horizon >= 1) => first = ThisRun

\* both runs returned after a full horizon of rounds in which the stream was read
C16_Witness ==
    /\ BothReturned
    /\ horizon = MaxSteps
    /\ Len(rewards_history) = MaxSteps
    /\ "arm" \in {kinds[i] : i \in 1 .. Len(kinds)}

====
